---- MODULE Spec2Model ----
(***************************************************************************)
(* Model of export_rag_jsonl.py: the article-to-chunk converter.           *)
(*                                                                         *)
(* Python strings are TLA+ strings (Len, \o and SubSeq act on them one     *)
(* character at a time).  The module is ASCII, so each CJK character of a  *)
(* literal of the source is written as one ASCII letter:                   *)
(*   "標題: " (4 characters)  is  "HT: "                                   *)
(*   "推文: " (4 characters)  is  "PW: "                                   *)
(*   "[原創]" (4 characters)  is  "[OC]"                                   *)
(***************************************************************************)
EXTENDS Integers, Sequences, FiniteSets, TLC

VARIABLES
    \* ---- chunk_with_title_prefix(text, title, max_chars, overlap) ----
    text,          \* argument text
    title,         \* argument title
    max_chars,     \* argument max_chars
    overlap,       \* argument overlap (passed on to simple_chunk_text)
    cpc,           \* position in chunk_with_title_prefix / simple_chunk_text
    chunks,        \* local `chunks` of chunk_with_title_prefix (line 100)
    result,        \* value returned by chunk_with_title_prefix
    \* ---- simple_chunk_text(text, max_chars, overlap), the running call ----
    sc_text,       \* local `text` after text.strip()
    sc_max,        \* parameter max_chars of the running call
    start,         \* local `start`
    sc_chunks,     \* local `chunks`; the returned list once the call returned
    \* ---- convert_to_jsonl / to_jsonl_records ----
    data,          \* data["articles"]
    idx,           \* 1-based position of the for loop over data["articles"]
    cur,           \* the article of the running / last to_jsonl_records call
    recs,          \* the records yielded by the last to_jsonl_records call
    count_articles,
    count_lines,
    out,           \* the lines written to the output file, in order
    out_art,       \* for each line of out, the position in data of its article
    pc,            \* position in convert_to_jsonl
    ret            \* the pair returned by convert_to_jsonl

chunk_vars == <<text, title, max_chars, overlap, cpc, chunks, result,
                sc_text, sc_max, start, sc_chunks>>
conv_vars == <<data, idx, cur, recs, count_articles, count_lines, out, out_art,
               pc, ret>>
vars == <<chunk_vars, conv_vars>>

----------------------------------------------------------------------------
(* Bounds of the model *)

\* longest short input text of SpecChunk
MaxLen == 6
\* longest title of SpecChunk
MaxTitleLen == 2
\* largest max_chars of SpecChunk
MaxChars == 11
\* largest overlap of SpecChunk
MaxOverlap == 2
\* cap on the iterations of the window loop followed by the model
MaxIter == 8

----------------------------------------------------------------------------
(* Strings *)

Min(a, b) == IF a < b THEN a ELSE b
Max(a, b) == IF a > b THEN a ELSE b

\* the characters str.strip() removes
Whitespace == {" ", "\n", "\t"}

RECURSIVE LStrip(_, _)
LStrip(s, cs) ==
    IF Len(s) > 0 /\ SubSeq(s, 1, 1) \in cs
    THEN LStrip(SubSeq(s, 2, Len(s)), cs)
    ELSE s

RECURSIVE RStrip(_, _)
RStrip(s, cs) ==
    IF Len(s) > 0 /\ SubSeq(s, Len(s), Len(s)) \in cs
    THEN RStrip(SubSeq(s, 1, Len(s) - 1), cs)
    ELSE s

\* str.strip(chars): the characters of cs removed from both ends
StripChars(s, cs) == RStrip(LStrip(s, cs), cs)

\* text.strip()
Strip(s) == StripChars(s, Whitespace)

\* sub in s
Contains(s, sub) ==
    \E p \in 1..(Len(s) - Len(sub) + 1) : SubSeq(s, p, p + Len(sub) - 1) = sub

\* str(n) for an integer n
RECURSIVE IntToStr(_)
IntToStr(n) ==
    IF n < 0 THEN "-" \o IntToStr(0 - n)
    ELSE IF n < 10 THEN SubSeq("0123456789", n + 1, n + 1)
    ELSE IntToStr(n \div 10) \o SubSeq("0123456789", (n % 10) + 1, (n % 10) + 1)

\* sep.join(parts)
RECURSIVE Join(_, _)
Join(sep, parts) ==
    IF Len(parts) = 0 THEN ""
    ELSE IF Len(parts) = 1 THEN parts[1]
    ELSE parts[1] \o sep \o Join(sep, Tail(parts))

\* s repeated n times
RECURSIVE Rep(_, _)
Rep(s, n) ==
    IF n = 0 THEN ""
    ELSE IF n % 2 = 1 THEN s \o Rep(s, n - 1)
    ELSE LET h == Rep(s, n \div 2) IN h \o h

----------------------------------------------------------------------------
(* simple_chunk_text *)

\* (mutant of WindowEnd: the window is one character too long)
WindowEndLong(st, mx, length) == Min(st + mx + 1, length)

\* line 91: end = min(start + max_chars, length)
WindowEnd(st, mx, length) == Min(st + mx, length)

\* (mutant of NextStart: one character is skipped between two windows)
NextStartGap(end, ov) == Max(0, end - ov + 1)

\* line 95: start = max(0, end - overlap)
NextStart(end, ov) == Max(0, end - ov)

\* line 106: title_prefix = f"標題: {title} | "
TitlePrefix(t) == "HT: " \o t \o " | "

\* (mutant of AdjustedMaxChars: only the title is subtracted, not the label)
AdjustedMaxCharsTitleOnly(mx, t) == mx - Len(t)

\* line 110: adjusted_max_chars = max_chars - title_prefix_length
AdjustedMaxChars(mx, t) == mx - Len(TitlePrefix(t))

\* the position a call of simple_chunk_text returns to / loops at
RetOf(p) == IF p \in {"call1", "loop1"} THEN "ret1" ELSE "ret2"
LoopOf(p) == IF p = "call1" THEN "loop1" ELSE "loop2"

\* lines 82-89: strip, the empty text, the max_chars <= 0 guard
SimpleChunkEnter ==
    /\ cpc \in {"call1", "call2"}
    /\ LET t == Strip(text) IN
        /\ sc_text' = t
        /\ start' = 0
        /\ IF t = ""
           THEN sc_chunks' = <<>> /\ cpc' = RetOf(cpc)
           ELSE IF sc_max <= 0
                THEN sc_chunks' = <<t>> /\ cpc' = RetOf(cpc)
                ELSE sc_chunks' = <<>> /\ cpc' = LoopOf(cpc)
    /\ UNCHANGED <<text, title, max_chars, overlap, chunks, result, sc_max>>
    /\ UNCHANGED conv_vars

\* lines 90-96: one iteration of the window loop
SimpleChunkIterate ==
    /\ cpc \in {"loop1", "loop2"}
    /\ Len(sc_chunks) < MaxIter
    /\ LET length == Len(sc_text)
           end == WindowEnd(start, sc_max, length)
           nxt == NextStart(end, overlap)
       IN
        /\ sc_chunks' = Append(sc_chunks, SubSeq(sc_text, start + 1, end))
        /\ IF end = length
           THEN start' = start /\ cpc' = RetOf(cpc)
           ELSE /\ start' = nxt
                /\ cpc' = IF nxt < length THEN cpc ELSE RetOf(cpc)
    /\ UNCHANGED <<text, title, max_chars, overlap, chunks, result, sc_text, sc_max>>
    /\ UNCHANGED conv_vars

----------------------------------------------------------------------------
(* chunk_with_title_prefix *)

\* lines 100-113: the first call returned; no title returns its chunks,
\* a title starts the second call with the adjusted max_chars
AfterFirstCall ==
    /\ cpc = "ret1"
    /\ chunks' = sc_chunks
    /\ IF title = ""
       THEN /\ result' = sc_chunks
            /\ cpc' = "done"
            /\ sc_max' = sc_max
       ELSE /\ result' = result
            /\ cpc' = "call2"
            /\ sc_max' = AdjustedMaxChars(max_chars, title)
    /\ UNCHANGED <<text, title, max_chars, overlap, sc_text, start, sc_chunks>>
    /\ UNCHANGED conv_vars

\* lines 116-120: the prefix is put before every chunk of the second call
AddTitlePrefix ==
    /\ cpc = "ret2"
    /\ result' = [k \in 1..Len(sc_chunks) |-> TitlePrefix(title) \o sc_chunks[k]]
    /\ cpc' = "done"
    /\ UNCHANGED <<text, title, max_chars, overlap, chunks, sc_text, sc_max,
                   start, sc_chunks>>
    /\ UNCHANGED conv_vars

----------------------------------------------------------------------------
(* JSON values and articles *)

\* A JSON value as json.load gives it: k is its kind ("absent" for a key the
\* mapping does not hold), s the text of a str, n the number of an int, items
\* the entries of a list.
Absent == [k |-> "absent", s |-> "", n |-> 0, items |-> <<>>]
None == [k |-> "none", s |-> "", n |-> 0, items |-> <<>>]
Str(x) == [k |-> "str", s |-> x, n |-> 0, items |-> <<>>]
Num(x) == [k |-> "int", s |-> "", n |-> x, items |-> <<>>]
List(xs) == [k |-> "list", s |-> "", n |-> 0, items |-> xs]

\* the keys the converter reads from an article
Keys == {"id", "aid", "article_id", "_id", "url", "board", "board_name", "author",
         "article_title", "content", "messages", "has_media"}

\* an article that is a mapping holding the keys of f; one that is not a mapping
Dict(f) == [k |-> "dict",
            d |-> [key \in Keys |-> IF key \in DOMAIN f THEN f[key] ELSE Absent]]
NotDict == [k |-> "str", d |-> [key \in Keys |-> Absent]]
NoArticle == [k |-> "absent", d |-> [key \in Keys |-> Absent]]

\* a reply: a mapping holding push_content (or not), or an entry that is no mapping
Msg(v) == [k |-> "dict", push_content |-> v]
MsgNotDict == [k |-> "str", push_content |-> Absent]

\* bool(v)
Truthy(v) ==
    CASE v.k = "str" -> v.s # ""
      [] v.k = "int" -> v.n # 0
      [] v.k = "list" -> v.items # <<>>
      [] OTHER -> FALSE

\* the text of v inside an f-string
Fmt(v) ==
    CASE v.k = "str" -> v.s
      [] v.k = "int" -> IntToStr(v.n)
      [] v.k = "none" -> "None"
      [] OTHER -> ""

\* article.get(key, default)
Get(a, key, default) == IF a.d[key].k = "absent" THEN default ELSE a.d[key]

\* article.get(key): None when the key is missing
Get0(a, key) == Get(a, key, None)

----------------------------------------------------------------------------
(* extract_push_content, clean_article_with_comments *)

\* lines 16-19 raise: iterating a truthy value that is no list, or msg.get on an
\* entry that is no mapping
PushRaises(messages) ==
    /\ Truthy(messages)
    /\ \/ messages.k # "list"
       \/ \E j \in 1..Len(messages.items) : messages.items[j].k # "dict"

\* lines 15-19: one line per message with a non-empty push_content
RECURSIVE PushLines(_)
PushLines(items) ==
    IF Len(items) = 0 THEN <<>>
    ELSE LET v == IF items[1].push_content.k = "absent" THEN Str("")
                  ELSE items[1].push_content
         IN (IF Truthy(v) THEN <<"PW: " \o Fmt(v)>> ELSE <<>>)
            \o PushLines(Tail(items))

\* lines 10-21
ExtractPushContent(messages) ==
    IF ~Truthy(messages) THEN "" ELSE Join("\n", PushLines(messages.items))

\* line 42 raises: " | ".join on a body that is truthy and no str
CleanRaises(a) ==
    \/ PushRaises(Get(a, "messages", List(<<>>)))
    \/ LET c == Get(a, "content", Str("")) IN Truthy(c) /\ c.k # "str"

\* lines 24-42 (for an article that is a mapping)
CleanArticleWithComments(a) ==
    LET c == Get(a, "content", Str(""))
        push == ExtractPushContent(Get(a, "messages", List(<<>>)))
    IN Join(" | ", (IF Truthy(c) THEN <<c.s>> ELSE <<>>)
                   \o (IF push # "" THEN <<push>> ELSE <<>>))

----------------------------------------------------------------------------
(* to_jsonl_records *)

\* default max_chars and overlap of chunk_with_title_prefix
DefaultMaxChars == 1600
DefaultOverlap == 200

\* the source tag main() passes to convert_to_jsonl
Source == "PTT"

\* the first truthy value of vs, else the last one (Python's `or` chain)
RECURSIVE OrChain(_)
OrChain(vs) ==
    IF Len(vs) = 1 \/ Truthy(vs[1]) THEN vs[1] ELSE OrChain(Tail(vs))

\* lines 129-135
ArticleId(a) ==
    OrChain(<<Get0(a, "id"), Get0(a, "aid"), Get0(a, "article_id"), Get0(a, "_id"),
              Str("")>>)

\* line 137
Board(a) == Get(a, "board", Get(a, "board_name", Str("")))

\* line 147 (and 226)
ArticleTitle(a) == Get(a, "article_title", Str(""))

\* hashlib.sha256(...).hexdigest(): an opaque fingerprint, one per content
Sha256Hexdigest(c) == "H<" \o c \o ">"

\* line 177
DedupeKey(c) == "sha256:" \o Sha256Hexdigest(c)

\* line 192: f"{source}_{board}_{article_id}_{idx}".strip("_")
RecordId(source, board, article_id, i) ==
    StripChars(source \o "_" \o Fmt(board) \o "_" \o Fmt(article_id) \o "_"
               \o IntToStr(i), {"_"})

\* (mutant of TotalChunks: the number of chunks, also when there is none)
TotalChunksNoFloor(cs) == Len(cs)

\* line 181: total_chunks = len(content_chunks) if content_chunks else 1
TotalChunks(cs) == IF Len(cs) > 0 THEN Len(cs) ELSE 1

\* (mutant of ContentChunks: no empty chunk stands in for an empty list)
ContentChunksAsIs(cs) == cs

\* lines 184-185: an empty list becomes one empty chunk
ContentChunks(cs) == IF Len(cs) = 0 THEN <<"">> ELSE cs

\* (mutant of Record: the dedupe key is taken from the chunk)
RecordKeyPerChunk(a, content, chunk, i, total) ==
    [content |-> chunk,
     metadata |-> [id |-> RecordId(Source, Board(a), ArticleId(a), i),
                   source |-> Source,
                   url |-> Get(a, "url", Str("")),
                   board |-> Board(a),
                   title |-> ArticleTitle(a),
                   author |-> Get(a, "author", Str("")),
                   chunk_index |-> i,
                   total_chunks |-> total,
                   has_media |-> Truthy(Get(a, "has_media", None)),
                   dedupe_key |-> DedupeKey(chunk)]]

\* lines 189-213: the record of chunk i (0-based) of article a; created_at and
\* tags, which nothing below reads, are left out
Record(a, content, chunk, i, total) ==
    [content |-> chunk,
     metadata |-> [id |-> RecordId(Source, Board(a), ArticleId(a), i),
                   source |-> Source,
                   url |-> Get(a, "url", Str("")),
                   board |-> Board(a),
                   title |-> ArticleTitle(a),
                   author |-> Get(a, "author", Str("")),
                   chunk_index |-> i,
                   total_chunks |-> total,
                   has_media |-> Truthy(Get(a, "has_media", None)),
                   dedupe_key |-> DedupeKey(content)]]

----------------------------------------------------------------------------
(* convert_to_jsonl *)

\* the exclusion marker "[原創]"
Marker == "[OC]"

\* (mutant of HasMarker: the title is compared with the marker)
HasMarkerEqual(t) == t.s = Marker

\* line 227: "[原創]" in title
HasMarker(t) == Contains(t.s, Marker)

\* line 227 raises: `in` on a title that is None or a number
TitleRaises(t) == t.k \in {"none", "int"}

\* lines 225-231 and 129-180: the loop takes the next article; it raises on an
\* article that is no mapping or a title that is no str, skips a marked title,
\* and else counts the article and enters to_jsonl_records up to the call of
\* chunk_with_title_prefix(content, article_title)
StartArticle ==
    /\ pc = "loop"
    /\ idx <= Len(data)
    /\ LET a == data[idx] IN
       IF a.k # "dict" \/ TitleRaises(ArticleTitle(a))
       THEN /\ pc' = "raised"
            /\ UNCHANGED <<idx, cur, recs, count_articles>>
            /\ UNCHANGED chunk_vars
       ELSE IF HasMarker(ArticleTitle(a))
       THEN /\ idx' = idx + 1
            /\ UNCHANGED <<pc, cur, recs, count_articles>>
            /\ UNCHANGED chunk_vars
       ELSE /\ count_articles' = count_articles + 1
            /\ cur' = a
            /\ recs' = <<>>
            /\ idx' = idx
            /\ IF CleanRaises(a)
               THEN /\ pc' = "raised"
                    /\ UNCHANGED chunk_vars
               ELSE /\ pc' = "records"
                    /\ text' = CleanArticleWithComments(a)
                    /\ title' = ArticleTitle(a).s
                    /\ max_chars' = DefaultMaxChars
                    /\ overlap' = DefaultOverlap
                    /\ sc_max' = DefaultMaxChars
                    /\ cpc' = "call1"
                    /\ UNCHANGED <<chunks, result, sc_text, start, sc_chunks>>
    /\ UNCHANGED <<data, count_lines, out, out_art, ret>>

\* lines 180-214 and 231-233: chunk_with_title_prefix returned; every record of
\* the article is built and written as one line
EmitRecords ==
    /\ pc = "records"
    /\ cpc = "done"
    /\ LET content_chunks == ContentChunks(result)
           total_chunks == TotalChunks(result)
           rs == [j \in 1..Len(content_chunks) |->
                    Record(cur, text, content_chunks[j], j - 1, total_chunks)]
       IN
        /\ recs' = rs
        /\ out' = out \o rs
        /\ out_art' = out_art \o [j \in 1..Len(rs) |-> idx]
        /\ count_lines' = count_lines + Len(rs)
    /\ idx' = idx + 1
    /\ pc' = "loop"
    /\ cpc' = "idle"
    /\ UNCHANGED <<text, title, max_chars, overlap, chunks, result, sc_text, sc_max,
                   start, sc_chunks>>
    /\ UNCHANGED <<data, cur, count_articles, ret>>

\* line 235: return count_articles, count_lines
Return ==
    /\ pc = "loop"
    /\ idx > Len(data)
    /\ pc' = "returned"
    /\ ret' = <<count_articles, count_lines>>
    /\ UNCHANGED <<data, idx, cur, recs, count_articles, count_lines, out, out_art>>
    /\ UNCHANGED chunk_vars

----------------------------------------------------------------------------
(* SpecChunk: chunk_with_title_prefix on inputs drawn from bounded sets *)

\* the characters the short texts are cut from, all different but the blanks
Letters == "ab cdefghijklmnop"

\* the text of the example of length 1800
LongText == Rep("abcdefghij", 180)

\* short texts, with and without blanks around them, and the long example
Texts ==
    {l \o SubSeq(Letters, 1, n) \o r : l \in {"", " "}, r \in {"", "\n"},
                                        n \in 0..MaxLen}

Titles == {Rep("t", n) : n \in 0..MaxTitleLen}

ConvIdle ==
    /\ data = <<>>
    /\ idx = 0
    /\ cur = NoArticle
    /\ recs = <<>>
    /\ count_articles = 0
    /\ count_lines = 0
    /\ out = <<>>
    /\ out_art = <<>>
    /\ pc = "idle"
    /\ ret = <<>>

InitChunk ==
    /\ \/ /\ text \in Texts
          /\ title \in Titles
          /\ max_chars \in -1..MaxChars
          /\ overlap \in -1..MaxOverlap
       \/ /\ text = LongText
          /\ title = ""
          /\ max_chars = 1600
          /\ overlap = 200
    /\ cpc = "call1"
    /\ chunks = <<>>
    /\ result = <<>>
    /\ sc_text = ""
    /\ sc_max = max_chars
    /\ start = 0
    /\ sc_chunks = <<>>
    /\ ConvIdle

NextChunk ==
    \/ SimpleChunkEnter
    \/ SimpleChunkIterate
    \/ AfterFirstCall
    \/ AddTitlePrefix

SpecChunk == InitChunk /\ [][NextChunk]_vars

----------------------------------------------------------------------------
(* Spec: convert_to_jsonl on lists of articles drawn from a bounded set *)

\* longest list of articles
MaxArticles == 2

\* a title longer than the budget left once the overlap is taken off:
\* its prefix leaves an adjusted max_chars of 93
HugeTitle == Rep("t", 1500)

\* the articles the lists are made of
Articles == {
    \* no key at all
    Dict(<<>>),
    \* a title and no text
    Dict([article_title |-> Str("[q] T")]),
    \* a body of blanks only
    Dict([content |-> Str("  "), id |-> Num(7)]),
    \* null fields
    Dict([content |-> None, messages |-> None, id |-> None, board |-> None,
          has_media |-> None]),
    \* marked titles: skipped
    Dict([article_title |-> Str("[OC] x"), content |-> Str("ab"), id |-> Str("m")]),
    Dict([article_title |-> Str("Re: [OC]"), content |-> Str("ab"), id |-> Str("r")]),
    \* long bodies, without and with a title
    Dict([content |-> Str(LongText), id |-> Str("L"), board |-> Str("B")]),
    Dict([article_title |-> Str("T"), content |-> Str(LongText), id |-> Str("L"),
          board |-> Str("B")]),
    \* a title whose prefix leaves less than the overlap
    Dict([article_title |-> Str(HugeTitle), content |-> Str(LongText)]),
    \* the same body and replies under different titles, ids, boards, authors
    Dict([article_title |-> Str("T"), content |-> Str("b"),
          messages |-> List(<<Msg(Str("p")), Msg(Str("")), Msg(Absent)>>),
          id |-> Str("c"), board |-> Str("a_b"), author |-> Str("u")]),
    Dict([article_title |-> Str("[q] S"), content |-> Str("b"),
          messages |-> List(<<Msg(Str("p"))>>),
          aid |-> Str("b_c"), board_name |-> Str("a"), author |-> Str("v"),
          has_media |-> Num(1)]),
    \* replies only
    Dict([messages |-> List(<<Msg(Str("p")), Msg(Str("q"))>>), id |-> Str("c")]),
    \* malformed: no mapping, a null title, a reply that is no mapping, a numeric body
    NotDict,
    Dict([article_title |-> None, content |-> Str("x")]),
    Dict([content |-> Str("x"), messages |-> List(<<Msg(Str("p")), MsgNotDict>>)]),
    Dict([content |-> Num(5)])
}

\* the lists of at most n articles
RECURSIVE ListsUpTo(_)
ListsUpTo(n) ==
    IF n = 0 THEN {<<>>}
    ELSE LET S == ListsUpTo(n - 1) IN
         S \cup {Append(l, a) : l \in {x \in S : Len(x) = n - 1}, a \in Articles}

Init ==
    /\ data \in ListsUpTo(MaxArticles)
    /\ idx = 1
    /\ cur = NoArticle
    /\ recs = <<>>
    /\ count_articles = 0
    /\ count_lines = 0
    /\ out = <<>>
    /\ out_art = <<>>
    /\ pc = "loop"
    /\ ret = <<>>
    /\ text = ""
    /\ title = ""
    /\ max_chars = DefaultMaxChars
    /\ overlap = DefaultOverlap
    /\ cpc = "idle"
    /\ chunks = <<>>
    /\ result = <<>>
    /\ sc_text = ""
    /\ sc_max = DefaultMaxChars
    /\ start = 0
    /\ sc_chunks = <<>>

Next ==
    \/ StartArticle
    \/ SimpleChunkEnter
    \/ SimpleChunkIterate
    \/ AfterFirstCall
    \/ AddTitlePrefix
    \/ EmitRecords
    \/ Return

Spec == Init /\ [][Next]_vars

----------------------------------------------------------------------------
(* Properties of simple_chunk_text and chunk_with_title_prefix (SpecChunk) *)

\* a call of simple_chunk_text(text, sc_max, overlap) has just returned sc_chunks
Returned == cpc \in {"ret1", "ret2"}

\* c with its first n characters removed
DropFirst(c, n) ==
    IF n <= 0 THEN c
    ELSE IF n >= Len(c) THEN ""
    ELSE SubSeq(c, n + 1, Len(c))

\* the first chunk whole, every later chunk without its first ov characters
RECURSIVE Reconstruct(_, _)
Reconstruct(cs, ov) ==
    IF Len(cs) = 0 THEN ""
    ELSE IF Len(cs) = 1 THEN cs[1]
    ELSE Reconstruct(SubSeq(cs, 1, Len(cs) - 1), ov) \o DropFirst(cs[Len(cs)], ov)

\* where window k of cs starts, when every window starts ov characters
\* before the end of the one before it
RECURSIVE WindowStartOf(_, _, _)
WindowStartOf(cs, k, ov) ==
    IF k = 1 THEN 0
    ELSE WindowStartOf(cs, k - 1, ov) + Len(cs[k - 1]) - ov

\* C1 (as amended): when simple_chunk_text returns, for max_chars > 0, overlap >= 0
\* and a text that is not empty once trimmed, the first chunk followed by every
\* later chunk without its first `overlap` characters is the TRIMMED text.
C1_ReconstructsTrimmed ==
    (Returned /\ sc_max > 0 /\ overlap >= 0 /\ Strip(text) # "")
        => Reconstruct(sc_chunks, overlap) = Strip(text)

\* C1 (as claimed): for every non-empty text, max_chars > 0 and overlap, the
\* returned chunks re-overlapped give back the input text itself.
C1_ReconstructsInput ==
    (Returned /\ sc_max > 0 /\ text # "")
        => Reconstruct(sc_chunks, overlap) = text

\* C1 witness: a padded text was returned as three or more overlapping chunks
C1_Witness ==
    /\ Returned /\ sc_max > 0 /\ overlap > 0
    /\ Len(sc_chunks) >= 3
    /\ Strip(text) # text

\* C3: in the list returned for max_chars > 0, every chunk but the last is exactly
\* max_chars long, the last is 1..max_chars long, chunk k+1 is the slice that starts
\* `overlap` characters before the end of chunk k; the text of length 1800 with
\* max_chars 1600 and overlap 200 gives text[0:1600] and text[1400:1800].
C3_WindowShape ==
    (Returned /\ sc_max > 0) =>
        LET t == Strip(text)
            n == Len(sc_chunks)
        IN
        /\ \A k \in 1..(n - 1) : Len(sc_chunks[k]) = sc_max
        /\ n > 0 => Len(sc_chunks[n]) \in 1..sc_max
        /\ \A k \in 1..n :
             LET s == WindowStartOf(sc_chunks, k, overlap) IN
             /\ s >= 0
             /\ s + Len(sc_chunks[k]) <= Len(t)
             /\ sc_chunks[k] = SubSeq(t, s + 1, s + Len(sc_chunks[k]))
        /\ (text = LongText /\ sc_max = 1600 /\ overlap = 200)
             => sc_chunks = <<SubSeq(LongText, 1, 1600), SubSeq(LongText, 1401, 1800)>>

\* C3 witness: the example of length 1800 returned its two chunks
C3_Witness ==
    /\ Returned /\ text = LongText /\ sc_max = 1600 /\ overlap = 200
    /\ Len(sc_chunks) = 2

\* a returned chunk starts with the title prefix
StartsWithPrefix(c) ==
    /\ Len(c) >= Len(TitlePrefix(title))
    /\ SubSeq(c, 1, Len(TitlePrefix(title))) = TitlePrefix(title)

\* C2 (as amended): every chunk returned by chunk_with_title_prefix starts with
\* the prefix when the title is non-empty, and is at most max_chars long with its
\* prefix whenever the budget left for the text is positive (max_chars minus the
\* prefix length > 0 with a title, max_chars > 0 without one).
C2_WithinBudgetWhenPositive ==
    cpc = "done" =>
        \A k \in 1..Len(result) :
            /\ title # "" => StartsWithPrefix(result[k])
            /\ (IF title = "" THEN max_chars > 0
                ELSE max_chars - Len(TitlePrefix(title)) > 0)
                 => Len(result[k]) <= max_chars

\* C2 (as claimed): for every text, title, max_chars and overlap every returned
\* chunk, prefix included, is at most max_chars long and starts with the prefix.
C2_WithinBudget ==
    cpc = "done" =>
        \A k \in 1..Len(result) :
            /\ title # "" => StartsWithPrefix(result[k])
            /\ Len(result[k]) <= max_chars

\* C2 witness: a titled text came back as several prefixed chunks, one of them
\* filling the budget exactly
C2_Witness ==
    /\ cpc = "done" /\ title # ""
    /\ Len(result) >= 2
    /\ \E k \in 1..Len(result) : Len(result[k]) = max_chars

\* C10 (as claimed): every iteration of the window loop that goes on to another
\* iteration has strictly advanced `start`.
C10_StartAdvances ==
    [][(cpc \in {"loop1", "loop2"} /\ cpc' = cpc) => start' > start]_vars

----------------------------------------------------------------------------
(* Properties of to_jsonl_records and convert_to_jsonl (Spec) *)

\* a call of to_jsonl_records has yielded all its records (recs, for article cur)
Yielded == pc \in {"loop", "returned"} /\ cur # NoArticle

\* the article line k of the output was written for
ArticleOf(k) == data[out_art[k]]

\* C4: the records yielded for an article carry chunk_index 0, 1, 2, ... in the
\* order they are yielded, and all carry the same total_chunks, which is the
\* number of records yielded and at least 1.
C4_ChunkIndexAndTotal ==
    Yielded =>
        /\ Len(recs) >= 1
        /\ \A j \in 1..Len(recs) :
            /\ recs[j].metadata.chunk_index = j - 1
            /\ recs[j].metadata.total_chunks = Len(recs)

\* C4 witness: an article has yielded several records
C4_Witness == Yielded /\ Len(recs) >= 2

\* C5 (as claimed): two lines of one run whose (source, board, article_id,
\* chunk_index) differ never carry the same metadata.id.
C5_IdInjective ==
    \A j, k \in 1..Len(out) :
        (<<Source, Board(ArticleOf(j)), ArticleId(ArticleOf(j)),
           out[j].metadata.chunk_index>>
         # <<Source, Board(ArticleOf(k)), ArticleId(ArticleOf(k)),
             out[k].metadata.chunk_index>>)
            => out[j].metadata.id # out[k].metadata.id

\* C6: all lines of one article carry the same dedupe_key, and so do the lines of
\* two articles whose assembled content (body joined with the rendered replies)
\* is the same, whatever their titles, authors, ids and boards.
C6_DedupeKeyByContent ==
    \A j, k \in 1..Len(out) :
        (\/ out_art[j] = out_art[k]
         \/ CleanArticleWithComments(ArticleOf(j)) = CleanArticleWithComments(ArticleOf(k)))
            => out[j].metadata.dedupe_key = out[k].metadata.dedupe_key

\* C6 witness: lines of two articles with the same content and different title,
\* author, id and board, and two lines of one article
C6_Witness ==
    /\ \E j, k \in 1..Len(out) :
        /\ out_art[j] # out_art[k]
        /\ CleanArticleWithComments(ArticleOf(j)) = CleanArticleWithComments(ArticleOf(k))
        /\ out[j].metadata.title # out[k].metadata.title
        /\ out[j].metadata.author # out[k].metadata.author
        /\ out[j].metadata.board # out[k].metadata.board
        /\ ArticleId(ArticleOf(j)) # ArticleId(ArticleOf(k))
    /\ pc = "returned"

\* the positions of the articles whose title does not contain the marker
Kept == {i \in 1..Len(data) : ~Contains(ArticleTitle(data[i]).s, Marker)}

\* C7: no line is ever written for an article whose title contains the marker;
\* the returned pair is (number of articles without the marker, number of lines
\* written), and the lines are those of the articles without the marker, in
\* input order.
C7_SkipsMarkedAndCounts ==
    /\ \A k \in 1..Len(out) : out_art[k] \in Kept
    /\ pc = "returned" =>
        /\ ret = <<Cardinality(Kept), Len(out)>>
        /\ {out_art[k] : k \in 1..Len(out)} = Kept
        /\ \A k \in 1..(Len(out) - 1) : out_art[k] <= out_art[k + 1]
        /\ \A k \in 1..Len(out) :
            out[k].metadata.title = ArticleTitle(ArticleOf(k))

\* C7 witness: a run returned having skipped an article and written several
\* lines for another
C7_Witness ==
    /\ pc = "returned"
    /\ Kept # {} /\ Kept # 1..Len(data)
    /\ Len(out) > Cardinality(Kept)

\* an article with no body (absent, null or empty) and no reply with a
\* non-empty text
NoExtractableText(a) ==
    /\ a.k = "dict"
    /\ LET c == a.d["content"] IN c.k \in {"absent", "none"} \/ c = Str("")
    /\ LET m == a.d["messages"] IN
        \/ m.k \in {"absent", "none"}
        \/ /\ m.k = "list"
           /\ \A j \in 1..Len(m.items) :
                /\ m.items[j].k = "dict"
                /\ m.items[j].push_content \in {Absent, None, Str("")}

\* C8: an article with no extractable text, titled or not, yields exactly one
\* record, with chunk_index 0, total_chunks 1 and a content that is empty (or
\* just the title prefix when it has a title).
C8_EmptyArticleOneRecord ==
    (Yielded /\ NoExtractableText(cur)) =>
        /\ Len(recs) = 1
        /\ recs[1].metadata.chunk_index = 0
        /\ recs[1].metadata.total_chunks = 1
        /\ \/ recs[1].content = ""
           \/ /\ ArticleTitle(cur).s # ""
              /\ recs[1].content = TitlePrefix(ArticleTitle(cur).s)

\* C8 witness: a titled article with no text has yielded its record
C8_Witness ==
    /\ Yielded /\ NoExtractableText(cur)
    /\ ArticleTitle(cur).s # ""
    /\ Len(recs) = 1

\* C9 (as claimed): no article, whatever is missing or malformed in it, makes
\* the run raise.
C9_NeverRaises == pc # "raised"

====
